---- MODULE Spec2Model ----
(***************************************************************************)
(* Model of the Wiki_scraper image pipeline: the thread-pool downloader    *)
(* (image_downloader.py) and the asyncio downloader                        *)
(* (async_image_downloader.py).                                            *)
(*                                                                         *)
(* Python strings are modelled as sequences of one-character strings, so   *)
(* that str.lower, str.strip, str.replace, re.sub, urlparse and            *)
(* os.path.splitext are computed character by character.                   *)
(***************************************************************************)
EXTENDS Integers, Sequences, FiniteSets, TLC

VARIABLES
    impl,             \* which downloader runs the batch: "thread" or "async"
    limit,            \* max_workers / concurrency
    entries,          \* the flattened mapping: entry -> [name, wiki_url]
    pc,               \* where each entry's worker is
    image_dir,        \* the files of the cache directory: {[name, state]}
    local_image,      \* entry["local_image"]: [set, path]
    local_path,       \* the worker's destination file name, once computed
    img_url,          \* the worker's normalized image URL, once located
    semaphore,        \* the value of asyncio.Semaphore(concurrency)
    waiters,          \* the workers blocked in semaphore.acquire(), in order
    session,          \* the aiohttp session: "open" or "closed"
    batch,            \* the download_images call: "running", "returned", "raised"
    net,              \* per entry, how its page and image fetch ended
    cached_at_start,  \* per entry, whether a file of its prefix was there at its start
    seen,             \* per entry, what its two looks at the directory found
    run,              \* which call of download_images this is: 1 or 2
    first_run,        \* per entry, how the first call left it
    r_file, r_pos, r_len, r_pc,
    q_in, q_thread, q_async, q_pc,
    c_name, c_url, c_result, c_pc,
    l_impl, l_markup, l_url, l_result, l_pc

raceVars == <<r_file, r_pos, r_len, r_pc>>

pairVars == <<q_in, q_thread, q_async, q_pc>>

batchVars == <<impl, limit, entries, pc, image_dir, local_image, local_path, img_url,
               semaphore, waiters, session, batch, net, cached_at_start, seen, run, first_run,
               r_file, r_pos, r_len, r_pc, q_in, q_thread, q_async, q_pc>>

codecVars == <<c_name, c_url, c_result, c_pc>>

locateVars == <<l_impl, l_markup, l_url, l_result, l_pc>>

vars == <<impl, limit, entries, pc, image_dir, local_image, local_path, img_url,
          semaphore, waiters, session, batch, net, cached_at_start, seen, run, first_run,
          r_file, r_pos, r_len, r_pc, q_in, q_thread, q_async, q_pc,
          c_name, c_url, c_result, c_pc,
          l_impl, l_markup, l_url, l_result, l_pc>>

(***************************************************************************)
(* Bounds of the model.                                                    *)
(***************************************************************************)
MaxNameLen == 3
MaxPathLen == 3
NumEntries == 2
MaxLimit == 2
MaxChunks == 2

(***************************************************************************)
(* Characters.                                                             *)
(***************************************************************************)
UpperChars == {"R", "F", "C"}
LetterChars == {"r", "e", "d", "f", "o", "x", "c", "a", "t", "i", "m", "g",
                "j", "p", "h", "s", "y", "n", "b", "u"} \cup UpperChars
DigitChars == {"0", "1"}
Whitespace == {" ", "\t", "\n"}

BoundedSeq(S, n) == UNION {[1..k -> S] : k \in 0..n}

\* str.lower() on one character
LowerChar(c) ==
    CASE c = "R" -> "r"
      [] c = "F" -> "f"
      [] c = "C" -> "c"
      [] OTHER -> c

\* str.lower()
Lower(s) == [i \in 1..Len(s) |-> LowerChar(s[i])]

RECURSIVE LStrip(_)
LStrip(s) ==
    IF s # <<>> /\ Head(s) \in Whitespace THEN LStrip(Tail(s)) ELSE s

RECURSIVE RStrip(_)
RStrip(s) ==
    IF s # <<>> /\ s[Len(s)] \in Whitespace
    THEN RStrip(SubSeq(s, 1, Len(s) - 1))
    ELSE s

\* str.strip(): leading and trailing whitespace removed
Strip(s) == RStrip(LStrip(s))

NotDropped(c) == c # ""

ReplaceRuns(s) ==
    SelectSeq([i \in 1..Len(s) |-> IF s[i] # " " THEN s[i]
                                   ELSE IF i > 1 /\ s[i - 1] = " " THEN ""
                                   ELSE "_"],
              NotDropped)

\* str.replace(" ", "_"): every space character, one for one
ReplaceSpace(s) == [i \in 1..Len(s) |-> IF s[i] = " " THEN "_" ELSE s[i]]

\* the characters the class [\w\d_-] matches
MatchesWordClass(c) == c \in LetterChars \cup DigitChars \cup {"_", "-"}

KeepsBang(c) == MatchesWordClass(c) \/ c = "!"

\* the characters re.sub(r"[^\w\d_-]", "", s) keeps
Kept(c) == MatchesWordClass(c)

\* re.sub(r"[^\w\d_-]", "", s)
ReSub(s) == SelectSeq(s, Kept)

\* safe_name of download_image_from_entry / process_entry
safe_name(name) == ReSub(ReplaceSpace(Strip(Lower(name))))

(***************************************************************************)
(* urllib.parse.urlparse(url).path and os.path.splitext.                   *)
(***************************************************************************)
\* index of the first element of s at or after i that is in S, or Len(s)+1
RECURSIVE FindFirst(_, _, _)
FindFirst(s, i, S) ==
    IF i > Len(s) THEN Len(s) + 1
    ELSE IF s[i] \in S THEN i
    ELSE FindFirst(s, i + 1, S)

\* index of the last element of s at or before i that equals c, or 0
RECURSIVE RFind(_, _, _)
RFind(s, i, c) ==
    IF i < 1 THEN 0
    ELSE IF s[i] = c THEN i
    ELSE RFind(s, i - 1, c)

StartsWith(s, p) == Len(p) <= Len(s) /\ SubSeq(s, 1, Len(p)) = p

Contains(s, c) == \E i \in 1..Len(s) : s[i] = c

SchemeChars == LetterChars \cup DigitChars \cup {"+", "-", "."}

\* urlsplit: [raised, path]. The scheme is cut at the first ":" when every
\* character before it is a scheme character; a "//" prefix opens the
\* netloc, which ends at the first "/", "?" or "#"; a netloc with one
\* bracket and not the other raises ValueError("Invalid IPv6 URL"); the path
\* ends at the first "?" or "#".
urlparse(url) ==
    LET colon == FindFirst(url, 1, {":"})
        hasScheme == /\ colon > 1
                     /\ colon <= Len(url)
                     /\ \A i \in 1..(colon - 1) : url[i] \in SchemeChars
        rest == IF hasScheme THEN SubSeq(url, colon + 1, Len(url)) ELSE url
        hasNetloc == StartsWith(rest, <<"/", "/">>)
        netEnd == IF hasNetloc THEN FindFirst(rest, 3, {"/", "?", "#"}) ELSE 1
        netloc == IF hasNetloc THEN SubSeq(rest, 3, netEnd - 1) ELSE <<>>
        after == SubSeq(rest, netEnd, Len(rest))
        pathEnd == FindFirst(after, 1, {"?", "#"})
    IN  IF Contains(netloc, "[") # Contains(netloc, "]")
        THEN [raised |-> TRUE, path |-> <<>>]
        ELSE [raised |-> FALSE, path |-> SubSeq(after, 1, pathEnd - 1)]

\* whether p[i..dot-1] holds a character other than "."
RECURSIVE HasNonDot(_, _, _)
HasNonDot(p, i, dot) ==
    IF i >= dot THEN FALSE
    ELSE IF p[i] # "." THEN TRUE
    ELSE HasNonDot(p, i + 1, dot)

\* os.path.splitext(p)[-1]
splitext(p) ==
    LET sepIndex == RFind(p, Len(p), "/")
        dotIndex == RFind(p, Len(p), ".")
    IN  IF dotIndex > sepIndex /\ HasNonDot(p, sepIndex + 1, dotIndex)
        THEN SubSeq(p, dotIndex, Len(p))
        ELSE <<>>

DefaultExt == <<".", "j", "p", "g">>

ExtOrPng(ext) == IF ext # <<>> THEN ext ELSE <<".", "p", "n", "g">>

\* ext or '.jpg'
ExtOrDefault(ext) == IF ext # <<>> THEN ext ELSE DefaultExt

\* sanitize_filename(name, url): [raised, value]
sanitize_filename(name, url) ==
    LET n1 == ReplaceSpace(Strip(Lower(name)))
        n2 == ReSub(n1)
        parsed == urlparse(url)
    IN  IF parsed.raised
        THEN [raised |-> TRUE, value |-> <<>>]
        ELSE [raised |-> FALSE, value |-> n2 \o ExtOrDefault(splitext(parsed.path))]

(***************************************************************************)
(* The image locator.  A page is modelled by what each of the four queries *)
(* of the code finds in it:                                                *)
(*   infobox: the first table whose class holds "infobox biota", and its   *)
(*            first img ("absent": no such table, "noimg": no img in it,   *)
(*            "nosrc": the img has no src, "empty": src="", "src")         *)
(*   thumb:   the first element with typeof="mw:File/Thumb" and its first  *)
(*            img that has a src attribute ("absent", "noimg", "empty",    *)
(*            "src")                                                       *)
(*   file:    the same for typeof="mw:File"                                *)
(*   cls:     the first img of class mw-file-element ("absent", "nosrc",   *)
(*            "empty", "src")                                              *)
(***************************************************************************)
Https == <<"h", "t", "t", "p", "s", ":">>
WikipediaOrigin ==
    Https \o <<"/", "/", "e", "n", ".", "w", "i", "k", "i", "p", "e", "d", "i", "a",
               ".", "o", "r", "g">>
OtherOrigin == Https \o <<"/", "/", "f", "r", ".", "w", "i", "k", "i", ".", "o", "r", "g">>
WikiPath == <<"/", "w", "i", "k", "i", "/", "C", "a", "t">>

SrcProtocolRelative == <<"/", "/", "u", "/", "a", ".", "j", "p", "g">>
SrcSiteRelative == <<"/", "s", "/", "b", ".", "p", "n", "g">>
SrcAbsolute == Https \o <<"/", "/", "u", "/", "c">>
SrcRelative == <<"d", ".", "g", "i", "f">>
SrcBadNetloc == <<"/", "/", "[", "u", "/", "e", ".", "j", "p", "g">>

El(kind, src) == [kind |-> kind, src |-> src]

\* a tag as the code holds it: None, or a tag with its src ("" when it has none)
NoTag == [tag |-> FALSE, src |-> <<>>]
TagOf(el) == [tag |-> TRUE, src |-> IF el.kind = "src" THEN el.src ELSE <<>>]

AlwaysUsable(t) == FALSE

\* not img_tag or not img_tag.get("src")
Unusable(t) == ~t.tag \/ t.src = <<>>

\* find_first_content_image(soup)
find_first_content_image(m) ==
    IF m.thumb.kind \in {"empty", "src"} THEN TagOf(m.thumb)
    ELSE IF m.file.kind \in {"empty", "src"} THEN TagOf(m.file)
    ELSE IF m.cls.kind = "src" THEN TagOf(m.cls)
    ELSE NoTag

normalize_site_first(src) ==
    IF StartsWith(src, <<"/">>) THEN WikipediaOrigin \o src
    ELSE IF StartsWith(src, <<"/", "/">>) THEN Https \o src
    ELSE src

\* the URL normalization both downloaders apply to a located src
normalize(src) ==
    IF StartsWith(src, <<"/", "/">>) THEN Https \o src
    ELSE IF StartsWith(src, <<"/">>) THEN WikipediaOrigin \o src
    ELSE src

Located(t) == [found |-> TRUE, raw |-> t.src, url |-> normalize(t.src)]
NotLocated == [found |-> FALSE, raw |-> <<>>, url |-> <<>>]

\* download_image_from_entry: the infobox lookup, the fallback and the
\* normalization of the src
locate_thread(m) ==
    LET first == IF m.infobox.kind \in {"absent", "noimg"} THEN NoTag
                 ELSE TagOf(m.infobox)
        img_tag == IF Unusable(first) THEN find_first_content_image(m) ELSE first
    IN  IF Unusable(img_tag) THEN NotLocated ELSE Located(img_tag)

\* extract_image_url(soup)
extract_image_url(m) ==
    LET img_tag == IF m.infobox.kind # "absent"
                   THEN (IF m.infobox.kind = "noimg" THEN NoTag ELSE TagOf(m.infobox))
                   ELSE (IF m.cls.kind = "absent" THEN NoTag ELSE TagOf(m.cls))
    IN  IF Unusable(img_tag) THEN NotLocated ELSE Located(img_tag)

(***************************************************************************)
(* The state of a specification's variables that another specification     *)
(* leaves alone.                                                           *)
(***************************************************************************)
NoResult == [raised |-> FALSE, value |-> <<>>]

PairIdle ==
    /\ q_in = <<>>
    /\ q_thread = <<>>
    /\ q_async = <<>>
    /\ q_pc = {}

RaceIdle ==
    /\ r_file = <<>>
    /\ r_pos = <<>>
    /\ r_len = <<>>
    /\ r_pc = <<>>

DownloadIdle ==
    /\ impl = "thread"
    /\ limit = 1
    /\ entries = <<>>
    /\ pc = <<>>
    /\ image_dir = {}
    /\ local_image = <<>>
    /\ local_path = <<>>
    /\ img_url = <<>>
    /\ semaphore = 1
    /\ waiters = <<>>
    /\ session = "open"
    /\ batch = "idle"
    /\ net = <<>>
    /\ cached_at_start = <<>>
    /\ seen = <<>>
    /\ run = 1
    /\ first_run = <<>>

BatchIdle == DownloadIdle /\ RaceIdle /\ PairIdle

CodecIdle ==
    /\ c_name = <<>>
    /\ c_url = <<>>
    /\ c_result = [prefix |-> <<>>, again |-> <<>>, file |-> NoResult]
    /\ c_pc = "idle"

LocateIdle ==
    /\ l_impl = "thread"
    /\ l_markup = [infobox |-> El("absent", <<>>), thumb |-> El("absent", <<>>),
                   file |-> El("absent", <<>>), cls |-> El("absent", <<>>)]
    /\ l_url = <<>>
    /\ l_result = NotLocated
    /\ l_pc = "idle"

(***************************************************************************)
(* Specification of the locator: a page and a source URL are drawn, and    *)
(* the locator of one of the two downloaders is applied.                   *)
(***************************************************************************)
LocateSrcs == {SrcProtocolRelative, SrcSiteRelative, SrcAbsolute, SrcRelative}

Elements(kinds) == {El(k, <<>>) : k \in kinds} \cup {El("src", s) : s \in LocateSrcs}

Markups ==
    [infobox : Elements({"absent", "noimg", "nosrc", "empty"}),
     thumb : Elements({"absent", "noimg", "empty"}),
     file : Elements({"absent", "noimg", "empty"}),
     cls : Elements({"absent", "nosrc", "empty"})]

LocateInit ==
    /\ BatchIdle
    /\ CodecIdle
    /\ l_impl \in {"thread", "async"}
    /\ l_markup \in Markups
    /\ l_url \in {WikipediaOrigin \o WikiPath, OtherOrigin \o WikiPath}
    /\ l_result = NotLocated
    /\ l_pc = "input"

LocateThread ==
    /\ l_pc = "input"
    /\ l_impl = "thread"
    /\ l_result' = locate_thread(l_markup)
    /\ l_pc' = "located"
    /\ UNCHANGED <<l_impl, l_markup, l_url>>
    /\ UNCHANGED codecVars
    /\ UNCHANGED batchVars

LocateAsync ==
    /\ l_pc = "input"
    /\ l_impl = "async"
    /\ l_result' = extract_image_url(l_markup)
    /\ l_pc' = "located"
    /\ UNCHANGED <<l_impl, l_markup, l_url>>
    /\ UNCHANGED codecVars
    /\ UNCHANGED batchVars

(***************************************************************************)
(* Specification of the filename codec: the inputs are drawn from bounded  *)
(* sets and the two functions are applied to them.                         *)
(***************************************************************************)
NameChars == {"R", "x", " ", "\t", "-", "!"}
PathChars == {"/", ".", "g"}

RedFox == <<"R", "e", "d", " ", "F", "o", "x">>
TwoSpaces == <<"R", " ", " ", "x">>
UrlHead == <<"h", "t", "t", "p", "s", ":", "/", "/", "x">>
ImageJpgUrl == UrlHead \o <<"/", "y", "/", "i", "m", "a", "g", "e", ".", "j", "p", "g">>
ImageNoExtUrl == UrlHead \o <<"/", "y", "/", "i", "m", "a", "g", "e">>
BadUrl == <<"h", "t", "t", "p", "s", ":", "/", "/", "[", "x", "/", "i", ".", "j", "p", "g">>

CodecNames == BoundedSeq(NameChars, MaxNameLen) \cup {RedFox, TwoSpaces}

CodecUrls ==
    {UrlHead \o p \o q : p \in BoundedSeq(PathChars, MaxPathLen),
                         q \in {<<>>, <<"?", "w", ".", "x">>}}
    \cup {ImageJpgUrl, ImageNoExtUrl, BadUrl}

CodecInit ==
    /\ BatchIdle
    /\ LocateIdle
    /\ c_name \in CodecNames
    /\ c_url \in CodecUrls
    /\ c_result = [prefix |-> <<>>, again |-> <<>>, file |-> NoResult]
    /\ c_pc = "input"

\* sanitize_prefix applied to the name, and once more to its own result
ApplySanitize ==
    /\ c_pc = "input"
    /\ c_result' = [c_result EXCEPT !.prefix = safe_name(c_name),
                                    !.again = safe_name(safe_name(c_name))]
    /\ c_pc' = "sanitized"
    /\ UNCHANGED <<c_name, c_url>>
    /\ UNCHANGED locateVars
    /\ UNCHANGED batchVars

\* build_filename applied to the name and the URL
ApplyBuild ==
    /\ c_pc = "sanitized"
    /\ c_result' = [c_result EXCEPT !.file = sanitize_filename(c_name, c_url)]
    /\ c_pc' = "built"
    /\ UNCHANGED <<c_name, c_url>>
    /\ UNCHANGED locateVars
    /\ UNCHANGED batchVars

CodecNext == ApplySanitize \/ ApplyBuild

SpecCodec == CodecInit /\ [][CodecNext]_vars

LocateNext == LocateThread \/ LocateAsync

SpecLocate == LocateInit /\ [][LocateNext]_vars

(***************************************************************************)
(* The batch: download_images of either downloader over a mapping.         *)
(*                                                                         *)
(* A worker's position (pc):                                               *)
(*   "queued"       thread pool: submitted, no thread has taken it         *)
(*   "created"      asyncio: task created by gather, not yet run           *)
(*   "unscheduled"  asyncio: filtered out of the batch (no wiki_url)       *)
(*   "waiting"      asyncio: blocked in semaphore.acquire()                *)
(*   "page"         inside the page fetch                                  *)
(*   "image"        inside the image fetch, before the response arrived    *)
(*   "writing"      inside the image fetch, destination opened, streaming  *)
(* and the terminal positions of Terminal.                                 *)
(***************************************************************************)
Cat == <<"C", "a", "t">>
CatX == <<"C", "a", "t", " ", "x">>
Fox == <<"F", "o", "x">>
BatchNames == {Cat, CatX, Fox}

SourceUrl == WikipediaOrigin \o WikiPath

\* an entry of the mapping; wiki_url <<>> stands for None
EntryConfigs == [name : BatchNames, wiki_url : {<<>>, SourceUrl}]

Absent == El("absent", <<>>)
Page(el) == [infobox |-> el, thumb |-> Absent, file |-> Absent, cls |-> Absent]

\* the pages a source URL may serve in the batch
BatchPages ==
    {Page(Absent), Page(El("src", SrcProtocolRelative)),
     Page(El("src", SrcSiteRelative)), Page(El("src", SrcBadNetloc))}

File(name, state) == [name |-> name, state |-> state]

CatJpg == <<"c", "a", "t", ".", "j", "p", "g">>

\* what the cache directory holds when the batch starts
InitialDirs == {{}, {File(CatJpg, "complete")}}

Entries == DOMAIN entries

Failed == {"FAILED_PAGE", "FAILED_NOIMAGE", "FAILED_FILENAME", "FAILED_DOWNLOAD"}
Terminal == {"SKIPPED", "CACHED", "CACHED_POST", "DONE", "RAISED"} \cup Failed
InFetch == {"page", "image", "writing"}

existing_files_unfiltered(dir, name) == dir

existing_files_exact(dir, name) == {f \in dir : f.name = safe_name(name)}

\* [f for f in os.listdir(image_dir) if f.startswith(safe_name)]
existing_files(dir, name) == {f \in dir : StartsWith(f.name, safe_name(name))}

\* os.path.exists(local_path)
path_exists(dir, fn) == \E f \in dir : f.name = fn

PutOutsideDir(dir, fn, state) == dir

\* history kept for the claims: a file of the name's prefix is in the directory
PrefixFilePresent(dir, name) ==
    \E f \in dir : StartsWith(f.name, ReSub(ReplaceSpace(Strip(Lower(name)))))

\* open(local_path, "wb") and the writes: the file is created or replaced
Put(dir, fn, state) == {f \in dir : f.name # fn} \cup {File(fn, state)}

Annotated(fn) == [set |-> TRUE, path |-> fn]
NotAnnotated == [set |-> FALSE, path |-> <<>>]

\* history kept for the claims: the state of the file a cache hit used, and
\* whether the destination existed when it was computed
NotSeen == [hit |-> "none", dest |-> "none"]
StateOf(dir, fn) == (CHOOSE f \in dir : f.name = fn).state
DestSeen(dir, fn) == IF \E f \in dir : f.name = fn THEN "exists" ELSE "missing"

\* history kept for the claims: where the first call left the entry
NoFirst == [pc |-> "none", path |-> <<>>]

\* where download_images puts an entry: executor.map submits every entry,
\* the asyncio version creates a coroutine for the entries with a wiki_url
Submitted(e) ==
    IF impl = "thread" THEN "queued"
    ELSE IF entries[e].wiki_url # <<>> THEN "created"
    ELSE "unscheduled"

BatchInit ==
    /\ CodecIdle
    /\ LocateIdle
    /\ impl \in {"thread", "async"}
    /\ limit \in 1..MaxLimit
    /\ entries \in [1..NumEntries -> EntryConfigs]
    /\ pc = [e \in 1..NumEntries |-> Submitted(e)]
    /\ image_dir \in InitialDirs
    /\ local_image = [e \in 1..NumEntries |-> NotAnnotated]
    /\ local_path = [e \in 1..NumEntries |-> <<>>]
    /\ img_url = [e \in 1..NumEntries |-> <<>>]
    /\ semaphore = limit
    /\ waiters = <<>>
    /\ session = "open"
    /\ batch = "running"
    /\ net = [e \in 1..NumEntries |-> [page |-> "none", img |-> "none"]]
    /\ cached_at_start = [e \in 1..NumEntries |-> FALSE]
    /\ seen = [e \in 1..NumEntries |-> NotSeen]
    /\ run = 1
    /\ first_run = [e \in 1..NumEntries |-> NoFirst]
    /\ RaceIdle
    /\ PairIdle

AssignedBeforeWrite(e) == [local_image EXCEPT ![e] = Annotated(local_path[e])]

\* the mapping after a write that broke: the except branch (the False
\* returned by download_image) only logs, the entry is not assigned to
AfterFailedWrite(e) == local_image

(***************************************************************************)
(* The thread-pool downloader.                                             *)
(***************************************************************************)
\* the work items a pool thread is executing
Busy == {e \in Entries : pc[e] \in InFetch}

PoolHasFreeThread == Cardinality(Busy) < limit

\* a pool thread takes the next work item and runs download_image_from_entry
\* up to its page request: the wiki_url test and the cache probe
T_Start(e) ==
    /\ impl = "thread"
    /\ batch = "running"
    /\ pc[e] = "queued"
    /\ \A d \in 1..(e - 1) : pc[d] # "queued"
    /\ PoolHasFreeThread
    /\ LET found == existing_files(image_dir, entries[e].name)
       IN  /\ cached_at_start' = [cached_at_start EXCEPT
                                     ![e] = PrefixFilePresent(image_dir, entries[e].name)]
           /\ IF entries[e].wiki_url = <<>>
              THEN /\ pc' = [pc EXCEPT ![e] = "SKIPPED"]
                   /\ UNCHANGED <<local_image, seen>>
              ELSE IF found # {}
              THEN /\ \E f \in found :
                          /\ local_image' = [local_image EXCEPT ![e] = Annotated(f.name)]
                          /\ seen' = [seen EXCEPT ![e].hit = f.state]
                   /\ pc' = [pc EXCEPT ![e] = "CACHED"]
              ELSE /\ pc' = [pc EXCEPT ![e] = "page"]
                   /\ UNCHANGED <<local_image, seen>>
    /\ UNCHANGED <<impl, limit, entries, image_dir, local_path, img_url, semaphore, waiters,
                   session, batch, net>>
    /\ UNCHANGED <<codecVars, locateVars, raceVars, pairVars, run, first_run>>

\* requests.get(url) returns or raises; the page is parsed, the image
\* located and the destination computed; every exception is caught
T_PageDone(e) ==
    /\ impl = "thread"
    /\ pc[e] = "page"
    /\ \/ /\ net' = [net EXCEPT ![e].page = "fail"]
          /\ pc' = [pc EXCEPT ![e] = "FAILED_PAGE"]
          /\ UNCHANGED <<local_path, img_url, seen>>
       \/ \E m \in BatchPages :
             LET r == locate_thread(m)
                 fn == sanitize_filename(entries[e].name, r.url)
             IN  /\ net' = [net EXCEPT ![e].page = "ok"]
                 /\ IF ~r.found
                    THEN /\ pc' = [pc EXCEPT ![e] = "FAILED_NOIMAGE"]
                         /\ UNCHANGED <<local_path, img_url, seen>>
                    ELSE IF fn.raised
                    THEN /\ pc' = [pc EXCEPT ![e] = "FAILED_FILENAME"]
                         /\ UNCHANGED <<local_path, img_url, seen>>
                    ELSE /\ pc' = [pc EXCEPT ![e] = "image"]
                         /\ local_path' = [local_path EXCEPT ![e] = fn.value]
                         /\ img_url' = [img_url EXCEPT ![e] = r.url]
                         /\ seen' = [seen EXCEPT ![e].dest = DestSeen(image_dir, fn.value)]
    /\ UNCHANGED <<impl, limit, entries, image_dir, local_image, semaphore, waiters,
                   session, batch, cached_at_start>>
    /\ UNCHANGED <<codecVars, locateVars, raceVars, pairVars, run, first_run>>

\* requests.get(img_url, stream=True) raises or fails raise_for_status, or
\* the destination is opened for writing
T_ImgResponse(e) ==
    /\ impl = "thread"
    /\ pc[e] = "image"
    /\ \/ /\ net' = [net EXCEPT ![e].img = "fail"]
          /\ pc' = [pc EXCEPT ![e] = "FAILED_DOWNLOAD"]
          /\ UNCHANGED image_dir
       \/ /\ image_dir' = Put(image_dir, local_path[e], "partial")
          /\ pc' = [pc EXCEPT ![e] = "writing"]
          /\ UNCHANGED net
    /\ UNCHANGED <<impl, limit, entries, local_image, local_path, img_url, semaphore, waiters,
                   session, batch, cached_at_start>>
    /\ UNCHANGED <<codecVars, locateVars, raceVars, pairVars, run, first_run, seen>>

\* the chunks are written and the entry annotated, or the stream breaks
T_WriteDone(e) ==
    /\ impl = "thread"
    /\ pc[e] = "writing"
    /\ \/ /\ net' = [net EXCEPT ![e].img = "ok"]
          /\ image_dir' = Put(image_dir, local_path[e], "complete")
          /\ local_image' = [local_image EXCEPT ![e] = Annotated(local_path[e])]
          /\ pc' = [pc EXCEPT ![e] = "DONE"]
       \/ /\ net' = [net EXCEPT ![e].img = "fail"]
          /\ image_dir' = Put(image_dir, local_path[e], "partial")
          /\ pc' = [pc EXCEPT ![e] = "FAILED_DOWNLOAD"]
          /\ local_image' = AfterFailedWrite(e)
    /\ UNCHANGED <<impl, limit, entries, local_path, img_url, semaphore, waiters,
                   session, batch, cached_at_start>>
    /\ UNCHANGED <<codecVars, locateVars, raceVars, pairVars, run, first_run, seen>>

ReturnsAtOnce == TRUE

\* the executor's with block may be left: shutdown(wait=True) has joined
\* every work item
PoolJoined == \A e \in Entries : pc[e] \in Terminal

\* download_images returns
T_Return ==
    /\ impl = "thread"
    /\ batch = "running"
    /\ PoolJoined
    /\ batch' = "returned"
    /\ UNCHANGED <<impl, limit, entries, pc, image_dir, local_image, local_path, img_url,
                   semaphore, waiters, session, net, cached_at_start>>
    /\ UNCHANGED <<codecVars, locateVars, raceVars, pairVars, run, first_run, seen>>

(***************************************************************************)
(* The asyncio downloader.  A task runs without interruption from one      *)
(* await to the next; gather's tasks all take their first step, in order,  *)
(* before the event loop handles any network event.                        *)
(***************************************************************************)
AllStarted == \A e \in Entries : pc[e] # "created"

AcquireAlways == TRUE

\* Semaphore.acquire() takes a permit at once: one is free and nobody waits
CanAcquire == semaphore > 0 /\ waiters = <<>>

NotReleased == semaphore

\* the semaphore's value after `async with self.semaphore` is left
Released == semaphore + 1

\* the first step of process_entry: the wiki_url test (every scheduled entry
\* has one), the cache probe, and the entry into the semaphore
A_Start(e) ==
    /\ impl = "async"
    /\ batch = "running"
    /\ pc[e] = "created"
    /\ \A d \in 1..(e - 1) : pc[d] # "created"
    /\ LET found == existing_files(image_dir, entries[e].name)
       IN  /\ cached_at_start' = [cached_at_start EXCEPT
                                     ![e] = PrefixFilePresent(image_dir, entries[e].name)]
           /\ IF found # {}
              THEN /\ \E f \in found :
                          /\ local_image' = [local_image EXCEPT ![e] = Annotated(f.name)]
                          /\ seen' = [seen EXCEPT ![e].hit = f.state]
                   /\ pc' = [pc EXCEPT ![e] = "CACHED"]
                   /\ UNCHANGED <<semaphore, waiters>>
              ELSE IF CanAcquire
              THEN /\ semaphore' = semaphore - 1
                   /\ pc' = [pc EXCEPT ![e] = "page"]
                   /\ UNCHANGED <<local_image, waiters, seen>>
              ELSE /\ waiters' = Append(waiters, e)
                   /\ pc' = [pc EXCEPT ![e] = "waiting"]
                   /\ UNCHANGED <<local_image, semaphore, seen>>
    /\ UNCHANGED <<impl, limit, entries, image_dir, local_path, img_url, session, batch, net>>
    /\ UNCHANGED <<codecVars, locateVars, raceVars, pairVars, run, first_run>>

\* the first waiter is woken with a permit free and calls fetch_html; on a
\* closed session session.get raises, fetch_html returns None and the worker
\* leaves the semaphore at once
A_Acquire(e) ==
    /\ impl = "async"
    /\ pc[e] = "waiting"
    /\ waiters # <<>>
    /\ Head(waiters) = e
    /\ semaphore > 0
    /\ waiters' = Tail(waiters)
    /\ IF session = "closed"
       THEN /\ net' = [net EXCEPT ![e].page = "closed"]
            /\ pc' = [pc EXCEPT ![e] = "FAILED_PAGE"]
            /\ UNCHANGED semaphore
       ELSE /\ semaphore' = semaphore - 1
            /\ pc' = [pc EXCEPT ![e] = "page"]
            /\ UNCHANGED net
    /\ UNCHANGED <<impl, limit, entries, image_dir, local_image, local_path, img_url,
                   session, batch, cached_at_start>>
    /\ UNCHANGED <<codecVars, locateVars, raceVars, pairVars, run, first_run, seen>>

\* fetch_html returns None (status, exception) or the page; then
\* extract_image_url, sanitize_filename (whose ValueError nothing catches),
\* the os.path.exists test and the call of download_image
A_PageDone(e) ==
    /\ impl = "async"
    /\ AllStarted
    /\ pc[e] = "page"
    /\ \/ /\ net' = [net EXCEPT ![e].page = "fail"]
          /\ pc' = [pc EXCEPT ![e] = "FAILED_PAGE"]
          /\ semaphore' = Released
          /\ UNCHANGED <<local_image, local_path, img_url, seen>>
       \/ \E m \in BatchPages :
             LET r == extract_image_url(m)
                 fn == sanitize_filename(entries[e].name, r.url)
             IN  IF ~r.found
                 THEN /\ net' = [net EXCEPT ![e].page = "ok"]
                      /\ pc' = [pc EXCEPT ![e] = "FAILED_NOIMAGE"]
                      /\ semaphore' = Released
                      /\ UNCHANGED <<local_image, local_path, img_url, seen>>
                 ELSE IF fn.raised
                 THEN /\ net' = [net EXCEPT ![e].page = "ok"]
                      /\ pc' = [pc EXCEPT ![e] = "RAISED"]
                      /\ semaphore' = Released
                      /\ UNCHANGED <<local_image, local_path, img_url, seen>>
                 ELSE IF path_exists(image_dir, fn.value)
                 THEN /\ net' = [net EXCEPT ![e].page = "ok"]
                      /\ local_image' = [local_image EXCEPT ![e] = Annotated(fn.value)]
                      /\ local_path' = [local_path EXCEPT ![e] = fn.value]
                      /\ img_url' = [img_url EXCEPT ![e] = r.url]
                      /\ pc' = [pc EXCEPT ![e] = "CACHED_POST"]
                      /\ seen' = [seen EXCEPT ![e].dest = DestSeen(image_dir, fn.value),
                                              ![e].hit = StateOf(image_dir, fn.value)]
                      /\ semaphore' = Released
                 ELSE IF session = "closed"
                 THEN /\ net' = [net EXCEPT ![e].page = "ok", ![e].img = "closed"]
                      /\ local_path' = [local_path EXCEPT ![e] = fn.value]
                      /\ img_url' = [img_url EXCEPT ![e] = r.url]
                      /\ pc' = [pc EXCEPT ![e] = "FAILED_DOWNLOAD"]
                      /\ seen' = [seen EXCEPT ![e].dest = DestSeen(image_dir, fn.value)]
                      /\ semaphore' = Released
                      /\ UNCHANGED local_image
                 ELSE /\ net' = [net EXCEPT ![e].page = "ok"]
                      /\ local_path' = [local_path EXCEPT ![e] = fn.value]
                      /\ img_url' = [img_url EXCEPT ![e] = r.url]
                      /\ pc' = [pc EXCEPT ![e] = "image"]
                      /\ seen' = [seen EXCEPT ![e].dest = DestSeen(image_dir, fn.value)]
                      /\ UNCHANGED <<local_image, semaphore>>
    /\ UNCHANGED <<impl, limit, entries, image_dir, waiters, session, batch,
                   cached_at_start>>
    /\ UNCHANGED <<codecVars, locateVars, raceVars, pairVars, run, first_run>>

\* download_image: the status is not 200 or session.get raises, or the
\* destination is opened for writing
A_ImgResponse(e) ==
    /\ impl = "async"
    /\ pc[e] = "image"
    /\ \/ /\ net' = [net EXCEPT ![e].img = "fail"]
          /\ pc' = [pc EXCEPT ![e] = "FAILED_DOWNLOAD"]
          /\ semaphore' = Released
          /\ UNCHANGED image_dir
       \/ /\ image_dir' = Put(image_dir, local_path[e], "partial")
          /\ pc' = [pc EXCEPT ![e] = "writing"]
          /\ UNCHANGED <<net, semaphore>>
    /\ UNCHANGED <<impl, limit, entries, local_image, local_path, img_url, waiters,
                   session, batch, cached_at_start>>
    /\ UNCHANGED <<codecVars, locateVars, raceVars, pairVars, run, first_run, seen>>

\* download_image returns True and the entry is annotated, or the stream
\* breaks and it returns False
A_WriteDone(e) ==
    /\ impl = "async"
    /\ pc[e] = "writing"
    /\ \/ /\ net' = [net EXCEPT ![e].img = "ok"]
          /\ image_dir' = Put(image_dir, local_path[e], "complete")
          /\ local_image' = [local_image EXCEPT ![e] = Annotated(local_path[e])]
          /\ pc' = [pc EXCEPT ![e] = "DONE"]
       \/ /\ net' = [net EXCEPT ![e].img = "fail"]
          /\ image_dir' = Put(image_dir, local_path[e], "partial")
          /\ pc' = [pc EXCEPT ![e] = "FAILED_DOWNLOAD"]
          /\ local_image' = AfterFailedWrite(e)
    /\ semaphore' = Released
    /\ UNCHANGED <<impl, limit, entries, local_path, img_url, waiters, session, batch,
                   cached_at_start>>
    /\ UNCHANGED <<codecVars, locateVars, raceVars, pairVars, run, first_run, seen>>

\* asyncio.gather(*tasks) has every result
Gathered == \A e \in Entries : pc[e] \in Terminal \cup {"unscheduled"}

\* gather has every result and none is an exception: the session is closed
\* and download_images returns
A_Return ==
    /\ impl = "async"
    /\ batch = "running"
    /\ Gathered
    /\ \A e \in Entries : pc[e] # "RAISED"
    /\ batch' = "returned"
    /\ session' = "closed"
    /\ UNCHANGED <<impl, limit, entries, pc, image_dir, local_image, local_path, img_url,
                   semaphore, waiters, net, cached_at_start>>
    /\ UNCHANGED <<codecVars, locateVars, raceVars, pairVars, run, first_run, seen>>

\* a task ended with an exception: gather passes the first one on at once,
\* the other tasks keep running, the session is closed on the way out and
\* download_images raises
A_Raise ==
    /\ impl = "async"
    /\ batch = "running"
    /\ \E e \in Entries : pc[e] = "RAISED"
    /\ batch' = "raised"
    /\ session' = "closed"
    /\ UNCHANGED <<impl, limit, entries, pc, image_dir, local_image, local_path, img_url,
                   semaphore, waiters, net, cached_at_start>>
    /\ UNCHANGED <<codecVars, locateVars, raceVars, pairVars, run, first_run, seen>>

Next ==
    \/ \E e \in Entries : T_Start(e)
    \/ \E e \in Entries : T_PageDone(e)
    \/ \E e \in Entries : T_ImgResponse(e)
    \/ \E e \in Entries : T_WriteDone(e)
    \/ T_Return
    \/ \E e \in Entries : A_Start(e)
    \/ \E e \in Entries : A_Acquire(e)
    \/ \E e \in Entries : A_PageDone(e)
    \/ \E e \in Entries : A_ImgResponse(e)
    \/ \E e \in Entries : A_WriteDone(e)
    \/ A_Return
    \/ A_Raise

Spec == BatchInit /\ [][Next]_vars

\* the batch under fair scheduling: a pool thread that can take a work item
\* takes it, the event loop runs a task that is ready, and every request
\* ends (timeout=10), so a step that can be taken is taken
FairSpec == BatchInit /\ [][Next]_vars /\ WF_vars(Next)

(***************************************************************************)
(* Two runs of the program.  main.py builds the mapping anew from the      *)
(* scraped table and calls download_images on it; the second run finds the *)
(* cache directory as the first one left it.                               *)
(***************************************************************************)
NewRun ==
    /\ run = 1
    /\ batch = "returned"
    /\ run' = 2
    /\ first_run' = [e \in Entries |-> [pc |-> pc[e], path |-> local_image[e].path]]
    /\ pc' = [e \in Entries |-> Submitted(e)]
    /\ local_image' = [e \in Entries |-> NotAnnotated]
    /\ local_path' = [e \in Entries |-> <<>>]
    /\ img_url' = [e \in Entries |-> <<>>]
    /\ net' = [e \in Entries |-> [page |-> "none", img |-> "none"]]
    /\ cached_at_start' = [e \in Entries |-> FALSE]
    /\ seen' = [e \in Entries |-> NotSeen]
    /\ session' = "open"
    /\ batch' = "running"
    /\ UNCHANGED <<impl, limit, entries, image_dir, semaphore, waiters>>
    /\ UNCHANGED <<codecVars, locateVars, raceVars, pairVars>>

RerunNext == Next \/ NewRun

\* the first run starts on an empty cache directory with one fetch at a
\* time; every entry has a link, and the names are those whose prefixes
\* collide ("cat" starts "cat_x")
RerunInit ==
    /\ BatchInit
    /\ image_dir = {}
    /\ \A e \in Entries : entries[e].wiki_url # <<>> /\ entries[e].name \in {Cat, CatX}
    /\ limit = 1

SpecRerun == RerunInit /\ [][RerunNext]_vars

(***************************************************************************)
(* Two workers that stream to one destination.  Both missed the cache, got *)
(* the same local_path and have their image response; each opens the path  *)
(* with mode "wb", which empties the file, and writes its chunks one after *)
(* the other at its own file position.  A chunk is <<writer, index>>; the  *)
(* bytes a write leaves unwritten below its position read as Hole.         *)
(***************************************************************************)
Writers == {1, 2}

Hole == <<0, 0>>

\* the chunks iter_content / iter_chunked yields to writer w
Payload(w) == [i \in 1..r_len[w] |-> <<w, i>>]

\* f.write(chunk) by a file object whose position is pos
WriteAt(file, pos, chunk) ==
    LET n == IF Len(file) > pos THEN Len(file) ELSE pos + 1
    IN  [i \in 1..n |-> IF i = pos + 1 THEN chunk
                        ELSE IF i <= Len(file) THEN file[i]
                        ELSE Hole]

RaceInit ==
    /\ DownloadIdle
    /\ PairIdle
    /\ CodecIdle
    /\ LocateIdle
    /\ r_file = <<>>
    /\ r_len \in [Writers -> 1..MaxChunks]
    /\ r_pos = [w \in Writers |-> 0]
    /\ r_pc = [w \in Writers |-> "response"]

\* open(local_path, "wb")
R_Open(w) ==
    /\ r_pc[w] = "response"
    /\ r_pc' = [r_pc EXCEPT ![w] = "open"]
    /\ r_file' = <<>>
    /\ UNCHANGED <<r_pos, r_len>>
    /\ UNCHANGED <<impl, limit, entries, pc, image_dir, local_image, local_path, img_url,
                   semaphore, waiters, session, batch, net, cached_at_start, seen, run,
                   first_run>>
    /\ UNCHANGED <<codecVars, locateVars, pairVars>>

\* one turn of the chunk loop
R_Write(w) ==
    /\ r_pc[w] = "open"
    /\ r_pos[w] < r_len[w]
    /\ r_file' = WriteAt(r_file, r_pos[w], Payload(w)[r_pos[w] + 1])
    /\ r_pos' = [r_pos EXCEPT ![w] = r_pos[w] + 1]
    /\ UNCHANGED <<r_pc, r_len>>
    /\ UNCHANGED <<impl, limit, entries, pc, image_dir, local_image, local_path, img_url,
                   semaphore, waiters, session, batch, net, cached_at_start, seen, run,
                   first_run>>
    /\ UNCHANGED <<codecVars, locateVars, pairVars>>

\* the chunks are used up and the with block closes the file
R_Close(w) ==
    /\ r_pc[w] = "open"
    /\ r_pos[w] = r_len[w]
    /\ r_pc' = [r_pc EXCEPT ![w] = "closed"]
    /\ UNCHANGED <<r_file, r_pos, r_len>>
    /\ UNCHANGED <<impl, limit, entries, pc, image_dir, local_image, local_path, img_url,
                   semaphore, waiters, session, batch, net, cached_at_start, seen, run,
                   first_run>>
    /\ UNCHANGED <<codecVars, locateVars, pairVars>>

RaceNext ==
    \/ \E w \in Writers : R_Open(w)
    \/ \E w \in Writers : R_Write(w)
    \/ \E w \in Writers : R_Close(w)

SpecRace == RaceInit /\ [][RaceNext]_vars

(***************************************************************************)
(* One entity run alone by each of the two workers, on the same entry, the *)
(* same directory, the same page and the same network outcomes.  A worker  *)
(* is a function of these inputs; its result is the sequence of its        *)
(* requests, where it ended, the directory and the entry's local_image.    *)
(* Both workers read the same os.listdir, so existing_files[0] is the same *)
(* file for both.                                                          *)
(***************************************************************************)
Statuses == {200, 203, 404}

\* a request raises (timeout, connection error) or a response arrives
Outcomes == {[kind |-> "exception", status |-> 0]}
            \cup {[kind |-> "response", status |-> st] : st \in Statuses}

\* an image only the locator's thumbnail rule finds
ThumbPage == [infobox |-> Absent, thumb |-> El("src", SrcSiteRelative),
              file |-> Absent, cls |-> Absent]

PairPages == BatchPages \cup {ThumbPage}

PairInputs ==
    [name : BatchNames, wiki_url : {<<>>, SourceUrl}, dir : InitialDirs,
     page : Outcomes, markup : PairPages, img : Outcomes, stream : {"ok", "breaks"}]

\* requests: the call raises, or raise_for_status() does
RequestsFails(o) == o.kind = "exception" \/ o.status >= 400

\* aiohttp: the call raises, or resp.status is not 200
AiohttpFails(o) == o.kind = "exception" \/ o.status # 200

FirstListed(found) == CHOOSE f \in found : TRUE

Ended(calls, state, dir, annotation) ==
    [calls |-> calls, state |-> state, dir |-> dir, local_image |-> annotation]

\* the image request and the writes, the same lines in both workers but for
\* the test of the response
Download(in, fn, fails) ==
    IF fails
    THEN Ended(<<"page", "image">>, "FAILED_DOWNLOAD", in.dir, NotAnnotated)
    ELSE IF in.stream = "breaks"
    THEN Ended(<<"page", "image">>, "FAILED_DOWNLOAD", Put(in.dir, fn, "partial"),
               NotAnnotated)
    ELSE Ended(<<"page", "image">>, "DONE", Put(in.dir, fn, "complete"), Annotated(fn))

\* download_image_from_entry(entry)
thread_worker(in) ==
    LET found == existing_files(in.dir, in.name)
        r == locate_thread(in.markup)
        fn == sanitize_filename(in.name, r.url)
    IN  IF in.wiki_url = <<>>
        THEN Ended(<<>>, "SKIPPED", in.dir, NotAnnotated)
        ELSE IF found # {}
        THEN Ended(<<>>, "CACHED", in.dir, Annotated(FirstListed(found).name))
        ELSE IF RequestsFails(in.page)
        THEN Ended(<<"page">>, "FAILED_PAGE", in.dir, NotAnnotated)
        ELSE IF ~r.found
        THEN Ended(<<"page">>, "FAILED_NOIMAGE", in.dir, NotAnnotated)
        ELSE IF fn.raised
        THEN Ended(<<"page">>, "FAILED_FILENAME", in.dir, NotAnnotated)
        ELSE Download(in, fn.value, RequestsFails(in.img))

\* process_entry(entry, session)
async_worker(in) ==
    LET found == existing_files(in.dir, in.name)
        r == extract_image_url(in.markup)
        fn == sanitize_filename(in.name, r.url)
    IN  IF in.wiki_url = <<>>
        THEN Ended(<<>>, "SKIPPED", in.dir, NotAnnotated)
        ELSE IF found # {}
        THEN Ended(<<>>, "CACHED", in.dir, Annotated(FirstListed(found).name))
        ELSE IF AiohttpFails(in.page)
        THEN Ended(<<"page">>, "FAILED_PAGE", in.dir, NotAnnotated)
        ELSE IF ~r.found
        THEN Ended(<<"page">>, "FAILED_NOIMAGE", in.dir, NotAnnotated)
        ELSE IF fn.raised
        THEN Ended(<<"page">>, "RAISED", in.dir, NotAnnotated)
        ELSE IF path_exists(in.dir, fn.value)
        THEN Ended(<<"page">>, "CACHED_POST", in.dir, Annotated(fn.value))
        ELSE Download(in, fn.value, AiohttpFails(in.img))

PairInit ==
    /\ DownloadIdle
    /\ RaceIdle
    /\ CodecIdle
    /\ LocateIdle
    /\ q_in \in PairInputs
    /\ q_thread = <<>>
    /\ q_async = <<>>
    /\ q_pc = {}

RunThreadWorker ==
    /\ "thread" \notin q_pc
    /\ q_thread' = thread_worker(q_in)
    /\ q_pc' = q_pc \cup {"thread"}
    /\ UNCHANGED <<q_in, q_async>>
    /\ UNCHANGED <<impl, limit, entries, pc, image_dir, local_image, local_path, img_url,
                   semaphore, waiters, session, batch, net, cached_at_start, seen, run,
                   first_run>>
    /\ UNCHANGED <<codecVars, locateVars, raceVars>>

RunAsyncWorker ==
    /\ "async" \notin q_pc
    /\ q_async' = async_worker(q_in)
    /\ q_pc' = q_pc \cup {"async"}
    /\ UNCHANGED <<q_in, q_thread>>
    /\ UNCHANGED <<impl, limit, entries, pc, image_dir, local_image, local_path, img_url,
                   semaphore, waiters, session, batch, net, cached_at_start, seen, run,
                   first_run>>
    /\ UNCHANGED <<codecVars, locateVars, raceVars>>

PairNext == RunThreadWorker \/ RunAsyncWorker

SpecPair == PairInit /\ [][PairNext]_vars

(***************************************************************************)
(* Claims about the batch (Spec).                                          *)
(***************************************************************************)
\* C1: at most `limit` workers are inside a Fetch Client call (page fetch or
\* image fetch) at the same time.
C1_FetchBound ==
    Cardinality({e \in Entries : pc[e] \in {"page", "image", "writing"}}) <= limit

\* the budget is used up by running fetches while another worker waits for it
C1_Witness ==
    /\ Cardinality({e \in Entries : pc[e] \in {"page", "image", "writing"}}) = limit
    /\ \E e \in Entries : pc[e] = "waiting"

\* the workers download_images schedules
Scheduled(e) == impl = "thread" \/ entries[e].wiki_url # <<>>

\* C2: download_images has returned only when every scheduled worker is in a
\* terminal state (SKIPPED, CACHED, CACHED(post-locate), FAILED(*) or DONE).
C2_ReturnAfterAll ==
    batch = "returned" =>
        \A e \in Entries :
            Scheduled(e) =>
                pc[e] \in {"SKIPPED", "CACHED", "CACHED_POST", "DONE", "FAILED_PAGE",
                           "FAILED_NOIMAGE", "FAILED_FILENAME", "FAILED_DOWNLOAD"}

\* the batch has returned with one worker done and another failed
C2_Witness ==
    /\ batch = "returned"
    /\ \E e \in Entries : pc[e] = "DONE"
    /\ \E e \in Entries : pc[e] = "FAILED_DOWNLOAD"

\* what C3 promises of a worker: no network call, and the entry annotated
\* with a file of the cache directory that has the name's prefix
ServedFromCache(e) ==
    /\ pc[e] \notin {"waiting", "page", "image", "writing"}
    /\ net[e] = [page |-> "none", img |-> "none"]
    /\ local_image[e].set
    /\ \E f \in image_dir :
          /\ f.name = local_image[e].path
          /\ StartsWith(f.name, ReSub(ReplaceSpace(Strip(Lower(entries[e].name)))))

\* C3 as stated: a worker that finds a file of its name's prefix in the
\* cache directory when it starts makes no network call and ends with
\* local_image set to such a file.
C3_CacheHit ==
    \A e \in Entries : cached_at_start[e] => ServedFromCache(e)

\* C3 as amended: the same, for a worker whose entity carries a source URL.
C3_CacheHitWithUrl ==
    \A e \in Entries :
        (cached_at_start[e] /\ entries[e].wiki_url # <<>>) => ServedFromCache(e)

\* a worker served from the cache
C3_Witness ==
    \E e \in Entries :
        /\ cached_at_start[e]
        /\ entries[e].wiki_url # <<>>
        /\ pc[e] = "CACHED"
        /\ local_image[e] = [set |-> TRUE, path |-> CatJpg]

\* a step of B's own failed: its page fetch, its locate, the derivation of
\* its file name, or its image fetch
OwnFailure(b) ==
    \/ net[b].page = "fail"
    \/ net[b].img = "fail"
    \/ pc[b] \in {"FAILED_NOIMAGE", "FAILED_FILENAME", "RAISED"}

\* C4: a failure of A's worker does not keep B from DONE: a worker B that
\* missed the cache and of whose own steps none failed ends in DONE with
\* local_image set, whatever happened to another worker A of the batch.
C4_FailureIsolation ==
    \A a, b \in Entries :
        ( /\ a # b
          /\ pc[a] \in Failed \cup {"RAISED"}
          /\ pc[b] \in Terminal \ {"SKIPPED", "CACHED", "CACHED_POST"}
          /\ ~OwnFailure(b) )
        => (pc[b] = "DONE" /\ local_image[b].set)

\* C5: download_images never raises to its caller, whatever the outcomes of
\* the entities.
C5_NeverRaises == batch # "raised"

\* C6: an entity with a source URL that missed the cache and whose page
\* fetch, locate and image fetch succeeded ends in DONE, the cache directory
\* holds build_filename(name, image_url) and local_image is that file.
C6_DownloadStored ==
    \A e \in Entries :
        ( /\ pc[e] \in Terminal
          /\ entries[e].wiki_url # <<>>
          /\ ~cached_at_start[e]
          /\ net[e] = [page |-> "ok", img |-> "ok"] )
        => /\ pc[e] = "DONE"
           /\ local_image[e] =
                 [set |-> TRUE,
                  path |-> ReSub(ReplaceSpace(Strip(Lower(entries[e].name))))
                           \o ExtOrDefault(splitext(urlparse(img_url[e]).path))]
           /\ \E f \in image_dir : f.name = local_image[e].path

\* the batch has returned and "Cat" was downloaded to cat.png
C6_Witness ==
    /\ batch = "returned"
    /\ \E e \in Entries :
          /\ entries[e].name = Cat
          /\ ~cached_at_start[e]
          /\ pc[e] = "DONE"
          /\ img_url[e] = WikipediaOrigin \o SrcSiteRelative
          /\ local_image[e].path = <<"c", "a", "t", ".", "p", "n", "g">>

(***************************************************************************)
(* Claims about the locator (SpecLocate).                                  *)
(***************************************************************************)
\* the four rules in the order the claim gives them
RuleOrder(m) == <<m.infobox, m.thumb, m.file, m.cls>>

\* the rules of a page that find an image with a usable (non-empty) src
Hits(m) == {i \in 1..4 : RuleOrder(m)[i].kind = "src"}

FirstHit(m) == CHOOSE i \in Hits(m) : \A j \in Hits(m) : i <= j

\* C7: locate returns the image of the first of the four rules (infobox,
\* mw:File/Thumb container, mw:File container, mw-file-element image) that
\* finds a usable image, a rule without one falling through to the next, and
\* returns nothing only when no rule finds one.
C7_LocatePriority ==
    l_pc = "located" =>
        IF Hits(l_markup) = {}
        THEN ~l_result.found
        ELSE /\ l_result.found
             /\ l_result.raw = RuleOrder(l_markup)[FirstHit(l_markup)].src

\* the host of a source page URL "https://<host>/..."
SourceHost(url) == SubSeq(url, 9, FindFirst(url, 9, {"/"}) - 1)

ExtensionStarts(p) ==
    {k \in 1..Len(p) :
        /\ p[k] = "."
        /\ \A j \in (k + 1)..Len(p) : p[j] \notin {".", "/"}
        /\ \E j \in 1..(k - 1) :
              /\ p[j] # "."
              /\ \A i \in j..k : p[i] # "/"}

PathExtension(p) ==
    IF ExtensionStarts(p) = {} THEN <<>>
    ELSE SubSeq(p, CHOOSE k \in ExtensionStarts(p) : TRUE, Len(p))

PermittedChars == LetterChars \cup DigitChars \cup {"_", "-"}

\* C10: sanitize_prefix is idempotent, and its result holds only
\* alphanumerics, "_" and "-".
C10_SanitizeIdempotent ==
    c_pc \in {"sanitized", "built"} =>
        /\ c_result.again = c_result.prefix
        /\ \A i \in 1..Len(c_result.prefix) : c_result.prefix[i] \in PermittedChars

\* a name with an upper-case letter, inner and outer whitespace and a
\* character outside the permitted set
C10_Witness ==
    /\ c_pc = "sanitized"
    /\ c_name = <<" ", "R", "!">>
    /\ c_result.prefix = <<"r">>
    /\ c_result.again = <<"r">>

\* the lower-cased name without its leading and trailing whitespace
Trimmed(name) ==
    LET t == Lower(name)
        solid == {i \in 1..Len(t) : t[i] \notin Whitespace}
    IN  IF solid = {} THEN <<>>
        ELSE SubSeq(t, CHOOSE i \in solid : \A j \in solid : i <= j,
                       CHOOSE i \in solid : \A j \in solid : j <= i)

\* r is t with the characters at the positions of keep, in order, where a
\* whitespace character is written as "_"
WrittenFrom(r, t, keep) ==
    /\ Len(r) = Cardinality(keep)
    /\ \A i \in keep :
          r[Cardinality({j \in keep : j <= i})] = IF t[i] \in Whitespace THEN "_" ELSE t[i]

\* C17 as stated: sanitize_prefix lower-cases and trims the name, writes one
\* "_" for every maximal run of whitespace characters and removes every
\* other character outside the alphanumerics, "_" and "-".
C17_WhitespaceRuns ==
    c_pc \in {"sanitized", "built"} =>
        LET t == Trimmed(c_name)
        IN  WrittenFrom(c_result.prefix, t,
                        {i \in 1..Len(t) :
                            \/ t[i] \in PermittedChars
                            \/ t[i] \in Whitespace /\ (i = 1 \/ t[i - 1] \notin Whitespace)})

\* C17 (amended): sanitize_prefix lower-cases and trims the name, writes one
\* "_" for every space character (k spaces in a row give k "_") and removes
\* every other character outside the alphanumerics, "_" and "-", tabs and
\* other whitespace included.
C17_EverySpace ==
    c_pc \in {"sanitized", "built"} =>
        LET t == Trimmed(c_name)
        IN  WrittenFrom(c_result.prefix, t,
                        {i \in 1..Len(t) : t[i] \in PermittedChars \/ t[i] = " "})

\* a name with two spaces in a row between its words has been sanitized
C17_Witness ==
    /\ c_pc = "sanitized"
    /\ c_name = TwoSpaces
    /\ c_result.prefix = <<"r", "_", "_", "x">>

(***************************************************************************)
(* Claims about scheduling, failures and the destination file (Spec).      *)
(***************************************************************************)
\* C11: for an entity without a source URL download_images never starts a
\* worker invocation, and the entity is never fetched nor annotated.
C11_OnlyUrlScheduled ==
    \A e \in Entries :
        entries[e].wiki_url = <<>> =>
            /\ pc[e] \in {"queued", "unscheduled"}
            /\ net[e] = [page |-> "none", img |-> "none"]
            /\ ~local_image[e].set

\* C12: a worker that ended in FAILED(page), FAILED(no-image) or
\* FAILED(download) has not raised out of the worker and its entity has no
\* local_image; a fetch that failed ends its worker in the matching state.
C12_FailedLeavesUnset ==
    \A e \in Entries :
        /\ pc[e] \in {"FAILED_PAGE", "FAILED_NOIMAGE", "FAILED_DOWNLOAD"} =>
               ~local_image[e].set
        /\ net[e].page \in {"fail", "closed"} => pc[e] = "FAILED_PAGE"
        /\ net[e].img \in {"fail", "closed"} => pc[e] = "FAILED_DOWNLOAD"
        /\ pc[e] = "RAISED" => net[e] = [page |-> "ok", img |-> "none"]

\* the three failures have happened in one batch that returned, one of them
\* after the destination was opened
C12_Witness ==
    /\ batch = "returned"
    /\ \E e \in Entries : pc[e] = "FAILED_PAGE" /\ ~local_image[e].set
    /\ \E e \in Entries :
          /\ pc[e] = "FAILED_DOWNLOAD"
          /\ ~local_image[e].set
          /\ \E f \in image_dir : f.name = local_path[e] /\ f.state = "partial"

\* C13: a worker that computed a destination which already existed ends in
\* CACHED(post-locate) with local_image set to the destination, and makes
\* no image fetch (so the file is not written again).
C13_PostLocateCheck ==
    \A e \in Entries :
        seen[e].dest = "exists" =>
            /\ pc[e] = "CACHED_POST"
            /\ local_image[e] = Annotated(local_path[e])
            /\ net[e].img = "none"

\* C16: no worker sets local_image, by the cache probe or by the post-locate
\* check, to a file that a download has opened and not completed (one still
\* in progress or one that failed).
C16_NoPartialHit ==
    \A e \in Entries : seen[e].hit # "partial"

\* C18: within a worker the probe precedes the page fetch, the page fetch
\* precedes locate and locate precedes the image fetch: a page fetch is made
\* only after a probe that missed, a reference is located only from a page
\* that was fetched, and an image fetch starts only from the page step, after
\* a probe that missed, a page fetch that succeeded and a located reference.
C18_StepOrder ==
    /\ [](\A e \in Entries :
            /\ (pc[e] \in {"waiting", "page"} \/ net[e].page # "none") =>
                   entries[e].wiki_url # <<>> /\ ~cached_at_start[e]
            /\ img_url[e] # <<>> => net[e].page = "ok"
            /\ (pc[e] \in {"image", "writing"} \/ net[e].img # "none") =>
                   /\ ~cached_at_start[e]
                   /\ net[e].page = "ok"
                   /\ img_url[e] # <<>>)
    /\ [][\A e \in Entries :
            /\ (pc'[e] = "page" /\ pc[e] # "page") => pc[e] \in {"queued", "created", "waiting"}
            /\ (pc'[e] = "image" /\ pc[e] # "image") => pc[e] = "page"
            /\ (pc'[e] = "writing" /\ pc[e] # "writing") => pc[e] = "image"]_vars

\* a worker went through all four steps, in a batch where another worker
\* stopped at the probe
C18_Witness ==
    /\ \E e \in Entries :
          /\ pc[e] = "DONE"
          /\ ~cached_at_start[e]
          /\ net[e] = [page |-> "ok", img |-> "ok"]
          /\ img_url[e] # <<>>
    /\ \E e \in Entries :
          /\ pc[e] = "CACHED"
          /\ cached_at_start[e]
          /\ net[e] = [page |-> "none", img |-> "none"]

\* C19: the number of acquisitions of the concurrency budget that are in
\* flight is between 0 and the capacity, it is the number of workers inside
\* their network section, and it is 0 whenever download_images has completed.
C19_BudgetReleased ==
    impl = "async" =>
        /\ limit - semaphore \in 0..limit
        /\ limit - semaphore = Cardinality({e \in Entries : pc[e] \in InFetch})
        /\ batch \in {"returned", "raised"} => limit - semaphore = 0

\* C20: under fair scheduling, with every fetch ending, every scheduled
\* worker eventually is in a terminal state and download_images eventually
\* returns, also when the batch is larger than the concurrency limit.
C20_Terminates ==
    <>(/\ batch = "returned"
       /\ \A e \in Entries :
             Scheduled(e) =>
                 pc[e] \in {"SKIPPED", "CACHED", "CACHED_POST", "DONE", "FAILED_PAGE",
                            "FAILED_NOIMAGE", "FAILED_FILENAME", "FAILED_DOWNLOAD"})

\* a file name without its extension
Stem(fn) == SubSeq(fn, 1, Len(fn) - Len(splitext(fn)))

\* the prefix of the entry's name, by the steps of the source
PrefixOf(e) == ReSub(ReplaceSpace(Strip(Lower(entries[e].name))))

\* C22 as stated: an entity whose local_image is set is annotated with its
\* own file: the file's name without its extension is the sanitized prefix
\* of the entity's name.
C22_OwnFile ==
    \A e \in Entries :
        local_image[e].set => Stem(local_image[e].path) = PrefixOf(e)

\* C22 (amended): an entity whose local_image is set is annotated with a
\* file whose name starts with the sanitized prefix of the entity's name;
\* a file the entity's own worker downloaded has exactly that prefix as its
\* name without the extension.
C22_PrefixFile ==
    \A e \in Entries :
        local_image[e].set =>
            /\ StartsWith(local_image[e].path, PrefixOf(e))
            /\ pc[e] = "DONE" => Stem(local_image[e].path) = PrefixOf(e)

\* one entity is annotated with the file it downloaded, and another, whose
\* prefix starts that file's name, with the same file
C22_Witness ==
    \E a, b \in Entries :
        /\ pc[a] = "DONE"
        /\ local_image[a].set
        /\ Stem(local_image[a].path) = PrefixOf(a)
        /\ pc[b] = "CACHED"
        /\ local_image[b] = local_image[a]
        /\ Stem(local_image[b].path) # PrefixOf(b)

(***************************************************************************)
(* Claims about two runs (SpecRerun).                                      *)
(***************************************************************************)
\* the files of the directory whose names start with the entry's prefix
PrefixFiles(e) ==
    {f \in image_dir : StartsWith(f.name, ReSub(ReplaceSpace(Strip(Lower(entries[e].name)))))}

\* C14 as stated: an entity that reached DONE in the first run makes no
\* network call in the second run and is annotated with the same file the
\* first run wrote for it.
C14_SameFile ==
    run = 2 =>
        \A e \in Entries :
            first_run[e].pc = "DONE" =>
                /\ pc[e] \in {"queued", "created", "CACHED"}
                /\ net[e] = [page |-> "none", img |-> "none"]
                /\ pc[e] = "CACHED" => local_image[e] = Annotated(first_run[e].path)

\* C14 (amended): an entity that reached DONE in the first run makes no
\* network call in the second run and is annotated with a file of the cache
\* directory whose name starts with its sanitized prefix; that file is the
\* one the first run wrote whenever no other file of the directory starts
\* with the prefix.
C14_SomePrefixFile ==
    run = 2 =>
        \A e \in Entries :
            first_run[e].pc = "DONE" =>
                /\ pc[e] \in {"queued", "created", "CACHED"}
                /\ net[e] = [page |-> "none", img |-> "none"]
                /\ pc[e] = "CACHED" =>
                       /\ local_image[e].set
                       /\ \E f \in PrefixFiles(e) : f.name = local_image[e].path
                       /\ Cardinality(PrefixFiles(e)) = 1 =>
                              local_image[e].path = first_run[e].path

\* in the second run an entity that was DONE is served from the cache with
\* the file the first run wrote, and another one with a different file
C14_Witness ==
    /\ run = 2
    /\ \E e \in Entries :
          /\ first_run[e].pc = "DONE"
          /\ pc[e] = "CACHED"
          /\ local_image[e] = Annotated(first_run[e].path)
          /\ Cardinality(PrefixFiles(e)) = 1
    /\ \E e \in Entries :
          /\ first_run[e].pc = "DONE"
          /\ pc[e] = "CACHED"
          /\ local_image[e].path # first_run[e].path

(***************************************************************************)
(* Claims about two writers of one destination (SpecRace).                 *)
(***************************************************************************)
\* C15: once both workers that streamed to the same destination have
\* finished, the file holds the complete payload of exactly one of them,
\* never a mixture of chunks of both.
C15_LastWriteWins ==
    (\A w \in Writers : r_pc[w] = "closed") =>
        \E w \in Writers : r_file = Payload(w)

(***************************************************************************)
(* Claims about the two workers run on the same inputs (SpecPair).         *)
(***************************************************************************)
\* C21: run alone on the same entity, the same cache directory, the same
\* page and the same network outcomes, the thread-pool worker and the
\* asyncio worker make the same sequence of network calls, end in the same
\* terminal state, leave the same files and set the same local_image.
C21_SameDesign ==
    q_pc = {"thread", "async"} =>
        /\ q_thread.calls = q_async.calls
        /\ q_thread.state = q_async.state
        /\ q_thread.dir = q_async.dir
        /\ q_thread.local_image = q_async.local_image

====
